---------------------------- MODULE Spec2Model ----------------------------
(***************************************************************************)
(* A model of src/app.py: the TMDB movie recommender (Streamlit script).   *)
(*                                                                         *)
(*   SpecFav   the favorites store, add_favorite / remove_favorite run one *)
(*             at a time on favorites.json                                 *)
(*   SpecConc  two sessions running add_favorite / remove_favorite on the  *)
(*             shared file, each as a load step and a rewrite step         *)
(*   SpecYear  the year text parsing of the search handler                 *)
(*   Spec      one browser session of the script: every user interaction   *)
(*             is one run of the script (plus the run st.rerun() starts)   *)
(***************************************************************************)
EXTENDS Integers, Sequences, FiniteSets, TLC

VARIABLES
    API_KEY,        \* app.py:9   TRUE iff TMDB_API_KEY is set in the environment
    file,           \* favorites.json (FAVORITES_FILE): absent, or the stored JSON array
    session_state,  \* st.session_state: a dict, keys created by the script
    sidebar,        \* values of the sidebar widgets (genre, min_rating, year)
    ui,             \* the buttons the latest run rendered
    log,            \* what the latest interaction did outside the session (calls, file I/O)
    run,            \* the latest interaction: the kind of button clicked, how it ended
    searched,       \* the filters of the latest search that completed
    call,           \* SpecFav: the latest store operation and the file before it
    pc,             \* SpecConc: per session, where it is inside add/remove
    favorites,      \* SpecConc: per session, the local variable `favorites`
    req,            \* SpecConc: per session, the operation in progress or last completed
    done,           \* SpecConc: per session, how many operations it completed
    year,           \* SpecYear: the text typed in the year box
    year_value      \* SpecYear: what line 173 made of it

sessionVars == <<API_KEY, session_state, sidebar, ui, log, run, searched>>

concVars == <<pc, favorites, req, done>>

yearVars == <<year, year_value>>

vars == <<file, call, sessionVars, concVars, yearVars>>

\* ------------------------------------------------------------------ bounds

\* movie ids the store operations are called with: 1..MaxId
MaxId == 3
\* longest year text tried
MaxYearLen == 4
\* operations each concurrent session runs
MaxOps == 2
\* movies in the provider's catalogue
NMovies == 2
\* movies per page of a discover response
PageSize == 1
\* "load more" is not clicked beyond this page number
MaxPage == 3
\* "load more" is clicked only with fewer cards than this on the page
MaxShown == 3
\* the call of an endpoint that fails is one of its first MaxFail calls
MaxFail == 1

\* ------------------------------------------------------- python values

\* Python's None (a str here, so it compares with the str fields it replaces)
None == "None"
\* JSON's null, as it stands in the file
JNull == "null"

\* dict.get(key, default)
Get(d, key, default) == IF key \in DOMAIN d THEN d[key] ELSE default

\* d[key] = value on a dict
Put(d, key, value) ==
    [k \in DOMAIN d \cup {key} |-> IF k = key THEN value ELSE d[k]]

\* the empty dict
EmptyDict == [k \in {} |-> None]

\* ------------------------------------------------------ favorites store

Ids == 1..MaxId

\* The movie dicts add_favorite is called with: for every id, two full
\* summaries that differ in every other field, and one with the id alone.
MovieInputs ==
    UNION {{
        [id |-> i, title |-> "A", poster_path |-> "/a.jpg",
         vote_average |-> "8.1", release_date |-> "2023-05-01", overview |-> "x"],
        [id |-> i, title |-> "B", poster_path |-> "/b.jpg",
         vote_average |-> "7.0", release_date |-> "2022-01-01", overview |-> "y"],
        [id |-> i]
      } : i \in Ids}

\* the favorites file when os.path.exists(FAVORITES_FILE) is False
NoFile == [exists |-> FALSE]

\* json.dump of one value of a record: None is written as null
json_encode(v) == IF v = None THEN JNull ELSE v

\* json.load of one value: null is read as None
json_decode(v) == IF v = JNull THEN None ELSE v

\* json.dump(favorites, f): the array, object by object (id is a number)
json_dump(favs) ==
    [i \in DOMAIN favs |->
        [k \in DOMAIN favs[i] |->
            IF k = "id" THEN favs[i][k] ELSE json_encode(favs[i][k])]]

\* json.load(f)
json_load(doc) ==
    [i \in DOMAIN doc |->
        [k \in DOMAIN doc[i] |->
            IF k = "id" THEN doc[i][k] ELSE json_decode(doc[i][k])]]

\* load_favorites(): the stored array, [] without a file
load_favorites(f) == IF f.exists THEN json_load(f.json) ELSE <<>>

\* save_favorites(favorites): the file is replaced by the whole array
save_favorites(favs) == [exists |-> TRUE, json |-> json_dump(favs)]

\* any(f["id"] == movie_id for f in favorites)
any_id(favs, movie_id) == \E i \in DOMAIN favs : favs[i].id = movie_id

\* the record add_favorite appends (line 77)
FavoriteRecord(movie) ==
    [id |-> movie.id,
     title |-> Get(movie, "title", None),
     poster_path |-> Get(movie, "poster_path", None),
     vote_average |-> Get(movie, "vote_average", None),
     release_date |-> Get(movie, "release_date", "")]

\* mutant: the record is appended without looking for its id
add_step_nocheck(favs, movie, f) ==
    save_favorites(Append(favs, FavoriteRecord(movie)))

\* mutant: an id already stored has its record refreshed from the movie
add_step_upsert(favs, movie, f) ==
    IF ~any_id(favs, movie.id)
    THEN save_favorites(Append(favs, FavoriteRecord(movie)))
    ELSE save_favorites([i \in DOMAIN favs |->
            IF favs[i].id = movie.id THEN FavoriteRecord(movie) ELSE favs[i]])

\* mutant: the file is read again under a lock before it is written
add_step_locked(favs, movie, f) ==
    IF ~any_id(load_favorites(f), movie.id)
    THEN save_favorites(Append(load_favorites(f), FavoriteRecord(movie)))
    ELSE f

\* add_favorite after its load (lines 76-78): `favs` is what was loaded, `f`
\* the file as it stands, left alone when the id is there
add_step(favs, movie, f) ==
    IF ~any_id(favs, movie.id)
    THEN save_favorites(Append(favs, FavoriteRecord(movie)))
    ELSE f

\* add_favorite(movie): the file after the call
add_favorite(f, movie) == add_step(load_favorites(f), movie, f)

\* mutant: the filter keeps the wrong side
remove_step_inverted(favs, movie_id) ==
    save_favorites(SelectSeq(favs, LAMBDA r : r.id = movie_id))

\* remove_favorite after its load (lines 84-85)
remove_step(favs, movie_id) ==
    save_favorites(SelectSeq(favs, LAMBDA r : r.id # movie_id))

\* remove_favorite(movie_id): the file after the call
remove_favorite(f, movie_id) == remove_step(load_favorites(f), movie_id)

\* is_favorite(movie_id)
is_favorite(f, movie_id) == any_id(load_favorites(f), movie_id)

\* no two records of the array share an id
UniqueIds(favs) ==
    \A i, j \in DOMAIN favs : favs[i].id = favs[j].id => i = j

\* the records with a given id
WithId(favs, movie_id) == {i \in DOMAIN favs : favs[i].id = movie_id}


\* ------------------------------------------- values of the idle variables

\* the sidebar before the user touches it: first genre, slider at 7.0, empty year
SidebarDefault == [genre |-> "Action", min_rating |-> 70, year |-> <<>>]

NoUi == [search |-> FALSE, cards |-> 0, more |-> FALSE, favtab |-> FALSE]

NoLog == [events |-> {}, discover |-> <<>>]

NoRun == [click |-> "start", exc |-> "none", handled |-> FALSE, page_before |-> 0]

NoSearch == <<>>

NoCall == [op |-> "none", movie |-> [id |-> 0], before |-> NoFile]

SessionIdle ==
    /\ API_KEY = TRUE
    /\ session_state = EmptyDict
    /\ sidebar = SidebarDefault
    /\ ui = NoUi
    /\ log = NoLog
    /\ run = NoRun
    /\ searched = NoSearch

ConcIdle ==
    /\ pc = <<>>
    /\ favorites = <<>>
    /\ req = <<>>
    /\ done = <<>>

YearIdle ==
    /\ year = <<>>
    /\ year_value = [raised |-> "unparsed", value |-> <<>>]

\* ---------------------------------------------- SpecFav: one call at a time

\* the stored arrays a run can start from: records add_favorite writes,
\* pairwise distinct ids
InitArrays ==
    LET recs == {FavoriteRecord(m) : m \in MovieInputs}
    IN {a \in UNION {[1..n -> recs] : n \in 0..MaxId} : UniqueIds(a)}

InitFav ==
    /\ file \in {NoFile} \cup {save_favorites(a) : a \in InitArrays}
    /\ call = NoCall
    /\ SessionIdle /\ ConcIdle /\ YearIdle

AddFavorite(movie) ==
    /\ file' = add_favorite(file, movie)
    /\ call' = [op |-> "add", movie |-> movie, before |-> file]
    /\ UNCHANGED <<sessionVars, concVars, yearVars>>

RemoveFavorite(movie_id) ==
    /\ file' = remove_favorite(file, movie_id)
    /\ call' = [op |-> "remove", movie |-> [id |-> movie_id], before |-> file]
    /\ UNCHANGED <<sessionVars, concVars, yearVars>>

NextFav ==
    \/ \E movie \in MovieInputs : AddFavorite(movie)
    \/ \E movie_id \in Ids : RemoveFavorite(movie_id)

SpecFav == InitFav /\ [][NextFav]_vars

\* C1: starting from an absent file or one with pairwise distinct ids, after
\* any sequence of add_favorite and remove_favorite calls run one at a time
\* the stored array holds at most one record per id.
C1_AtMostOneRecordPerId == UniqueIds(load_favorites(file))

\* a record was appended to a file that already held another one, and a
\* later add of a stored id has run
C1_Witness ==
    /\ call.op = "add"
    /\ any_id(load_favorites(call.before), call.movie.id)
    /\ Len(load_favorites(file)) >= 2

\* C2: add_favorite(movie) with movie's id already stored changes nothing:
\* the file is the very file it was (same records, same field values, same
\* order) whatever the other fields of the movie are; and after any
\* add_favorite exactly one record has the movie's id.
C2_AddExistingIsNoOp ==
    call.op = "add" =>
        /\ Cardinality(WithId(load_favorites(file), call.movie.id)) = 1
        /\ any_id(load_favorites(call.before), call.movie.id) =>
              /\ file = call.before
              /\ Len(load_favorites(file)) = Len(load_favorites(call.before))

\* add_favorite was called with a stored id and with fields that differ
\* from the stored record's
C2_Witness ==
    /\ call.op = "add"
    /\ \E i \in DOMAIN load_favorites(call.before) :
          /\ load_favorites(call.before)[i].id = call.movie.id
          /\ load_favorites(call.before)[i] # FavoriteRecord(call.movie)
    /\ Len(load_favorites(file)) >= 2

\* C3: remove_favorite(movie_id) with no stored record of that id leaves
\* what load_favorites() returns unchanged, also when there was no file (the
\* file is then written, holding the empty array).
C3_RemoveAbsentKeepsSet ==
    (call.op = "remove" /\ ~any_id(load_favorites(call.before), call.movie.id)) =>
        /\ load_favorites(file) = load_favorites(call.before)
        /\ file.exists

\* remove_favorite of an id that is not stored, on a non-empty file
C3_Witness ==
    /\ call.op = "remove"
    /\ ~any_id(load_favorites(call.before), call.movie.id)
    /\ Len(load_favorites(call.before)) >= 1

\* remove_favorite when there was no file at all
C3_WitnessNoFile ==
    /\ call.op = "remove"
    /\ ~call.before.exists
    /\ file.exists

\* ------------------------------------------------- SpecYear: line 173

\* A str is a sequence of characters. "sup2" stands for U+00B2 SUPERSCRIPT
\* TWO: a digit for str.isdigit(), not a decimal for int().
DecimalChars == {"0", "2", "3"}

DigitChars == DecimalChars \cup {"sup2"}

Chars == DigitChars \cup {"a", " "}

\* the value of a decimal character
DecimalValue(c) == CASE c = "0" -> 0 [] c = "2" -> 2 [] c = "3" -> 3 [] OTHER -> 0

\* str.isdigit(): at least one character, every character a digit
isdigit(str) == Len(str) > 0 /\ \A i \in DOMAIN str : str[i] \in DigitChars

RECURSIVE lstrip(_)
\* str.lstrip()
lstrip(str) ==
    IF Len(str) > 0 /\ Head(str) = " " THEN lstrip(Tail(str)) ELSE str

RECURSIVE rstrip(_)
\* str.rstrip()
rstrip(str) ==
    IF Len(str) > 0 /\ str[Len(str)] = " "
    THEN rstrip(SubSeq(str, 1, Len(str) - 1)) ELSE str

RECURSIVE DecimalNumber(_)
\* the number a sequence of decimal characters writes, base 10
DecimalNumber(str) ==
    IF Len(str) = 0 THEN 0
    ELSE 10 * DecimalNumber(SubSeq(str, 1, Len(str) - 1))
         + DecimalValue(str[Len(str)])

\* int(str): surrounding whitespace is dropped, then every character must
\* be a decimal; anything else raises ValueError
int(str) ==
    LET t == rstrip(lstrip(str))
    IN IF Len(t) > 0 /\ \A i \in DOMAIN t : t[i] \in DecimalChars
       THEN [raised |-> "none", value |-> <<DecimalNumber(t)>>]
       ELSE [raised |-> "ValueError", value |-> <<>>]

\* no year filter: Python's None for year_value (a value is <<n>>)
NoYear == <<>>

\* year_value = int(year) if year.isdigit() else None   (line 173)
ParseYear(str) ==
    IF isdigit(str) THEN int(str) ELSE [raised |-> "none", value |-> NoYear]

Unparsed == [raised |-> "unparsed", value |-> NoYear]

InitYear ==
    /\ year = <<>>
    /\ year_value = Unparsed
    /\ file = NoFile /\ call = NoCall
    /\ SessionIdle /\ ConcIdle

\* the search handler reaches line 173 with the text typed
ParseYearText ==
    /\ year_value = Unparsed
    /\ year_value' = ParseYear(year)
    /\ UNCHANGED <<file, call, sessionVars, concVars, year>>

\* the user types one more character into the year box
TypeYear(c) ==
    /\ Len(year) < MaxYearLen
    /\ year' = Append(year, c)
    /\ year_value' = Unparsed
    /\ UNCHANGED <<file, call, sessionVars, concVars>>

\* the user clears the year box
ClearYear ==
    /\ year_value # Unparsed
    /\ year' = <<>>
    /\ year_value' = Unparsed
    /\ UNCHANGED <<file, call, sessionVars, concVars>>

NextYear ==
    \/ ParseYearText
    \/ \E c \in Chars : TypeYear(c)
    \/ ClearYear

SpecYear == InitYear /\ [][NextYear]_vars

\* the text is made of the digits 0-9 only, and of at least one
AsciiDigitsOnly(str) ==
    Len(str) > 0 /\ \A i \in DOMAIN str : str[i] \in DecimalChars

\* C8: for every text, a string made only of digits yields that integer as
\* the year filter, any other text yields no year filter (None), and the
\* parsing never raises.
C8_YearParsing ==
    year_value # Unparsed =>
        /\ year_value.raised = "none"
        /\ AsciiDigitsOnly(year) => year_value.value = <<DecimalNumber(year)>>
        /\ ~AsciiDigitsOnly(year) => year_value.value = NoYear

\* the year box holds a superscript two and line 173 has raised
C8_Witness ==
    /\ year = <<"sup2">>
    /\ isdigit(year)
    /\ year_value.raised = "ValueError"

\* what the code does do: digit strings parse, texts with a character that
\* is no digit give None
C8_ParsesPlainYears ==
    year_value # Unparsed =>
        /\ AsciiDigitsOnly(year) =>
              year_value = [raised |-> "none", value |-> <<DecimalNumber(year)>>]
        /\ ~isdigit(year) => year_value = [raised |-> "none", value |-> NoYear]

\* ------------------------------- SpecConc: two sessions, one favorites file

\* the browser sessions sharing the deployment's favorites.json
Sessions == {"s1", "s2"}

\* the movies the sessions toggle
ConcMovies == {m \in MovieInputs : Get(m, "title", None) = "A"}

InitConc ==
    /\ file \in {NoFile, save_favorites(<<>>)}
               \cup {save_favorites(<<FavoriteRecord(m)>>) : m \in ConcMovies}
    /\ pc = [s \in Sessions |-> "idle"]
    /\ favorites = [s \in Sessions |-> <<>>]
    /\ req = [s \in Sessions |-> [op |-> "none", movie |-> [id |-> 0]]]
    /\ done = [s \in Sessions |-> 0]
    /\ call = NoCall
    /\ SessionIdle /\ YearIdle

\* line 75 / line 83: favorites = load_favorites()
LoadStep(s, op, movie) ==
    /\ pc[s] = "idle"
    /\ done[s] < MaxOps
    /\ favorites' = [favorites EXCEPT ![s] = load_favorites(file)]
    /\ req' = [req EXCEPT ![s] = [op |-> op, movie |-> movie]]
    /\ pc' = [pc EXCEPT ![s] = "loaded"]
    /\ UNCHANGED <<file, call, sessionVars, done, yearVars>>

\* lines 76-78 / lines 84-85: the rest of the call, from what was loaded
WriteStep(s) ==
    /\ pc[s] = "loaded"
    /\ file' = IF req[s].op = "add"
               THEN add_step(favorites[s], req[s].movie, file)
               ELSE remove_step(favorites[s], req[s].movie.id)
    /\ pc' = [pc EXCEPT ![s] = "idle"]
    /\ done' = [done EXCEPT ![s] = @ + 1]
    /\ UNCHANGED <<call, sessionVars, favorites, req, yearVars>>

NextConc ==
    \/ \E s \in Sessions, movie \in ConcMovies : LoadStep(s, "add", movie)
    \/ \E s \in Sessions, movie \in ConcMovies :
          LoadStep(s, "remove", [id |-> movie.id])
    \/ \E s \in Sessions : WriteStep(s)

SpecConc == InitConc /\ [][NextConc]_vars

\* the array a session's call leaves, computed from what that session loaded
OwnResult(s) ==
    IF req[s].op = "add"
    THEN IF any_id(favorites[s], req[s].movie.id) THEN favorites[s]
         ELSE Append(favorites[s], FavoriteRecord(req[s].movie))
    ELSE SelectSeq(favorites[s], LAMBDA r : r.id # req[s].movie.id)

\* the session's call rewrites the file
Rewrites(s) ==
    req[s].op = "remove" \/ ~any_id(favorites[s], req[s].movie.id)

\* C6: with no locking between the load step and the rewrite step, the last
\* writer wins: a session's rewrite leaves exactly the array computed from
\* what that session loaded, whatever the other session wrote in between.
C6_LastWriterWins ==
    [][\A s \in Sessions :
          (pc[s] = "loaded" /\ pc'[s] = "idle" /\ Rewrites(s))
              => load_favorites(file') = OwnResult(s)]_vars

\* each session ran one add_favorite, of different movies neither of which was
\* stored, both completed, and the file lacks one of the two records
C6_Witness ==
    /\ \A s \in Sessions : pc[s] = "idle" /\ done[s] = 1 /\ req[s].op = "add"
    /\ \A s \in Sessions : ~any_id(favorites[s], req[s].movie.id)
    /\ req["s1"].movie.id # req["s2"].movie.id
    /\ \E s \in Sessions : ~is_favorite(file, req[s].movie.id)

\* one session removed a stored movie, the other added another one, both
\* completed, and the removed record is back in the file
C6_WitnessRemoval ==
    /\ \A s \in Sessions : pc[s] = "idle" /\ done[s] = 1
    /\ req["s1"].op = "remove" /\ any_id(favorites["s1"], req["s1"].movie.id)
    /\ req["s2"].op = "add" /\ ~any_id(favorites["s2"], req["s2"].movie.id)
    /\ req["s1"].movie.id # req["s2"].movie.id
    /\ is_favorite(file, req["s1"].movie.id)

\* ------------------------------------------------ the provider (TMDB)

\* res.json()["genres"] of /genre/movie/list
Genres == <<[id |-> 28, name |-> "Action"], [id |-> 18, name |-> "Drama"]>>

\* genre_names (line 155)
genre_names == {Genres[i].name : i \in DOMAIN Genres}

\* genre_map[name] (line 156)
genre_map(name) == Genres[CHOOSE i \in DOMAIN Genres : Genres[i].name = name].id

\* The catalogue behind /discover/movie: movies 1..NMovies in descending
\* popularity, all of them Action. Ratings are in tenths (81 is 8.1).
CatalogVote(m) == IF m % 2 = 1 THEN 81 ELSE 72

CatalogYear(m) == IF m <= 2 THEN 2023 ELSE 2022

CatalogGenre(m) == 28

\* the movie summary the provider returns for a movie; the last one has no
\* poster
CatalogMovie(m) ==
    LET base == [id |-> m,
                 title |-> IF m % 2 = 1 THEN "A" ELSE "B",
                 vote_average |-> IF m % 2 = 1 THEN "8.1" ELSE "7.2",
                 release_date |-> IF m <= 2 THEN "2023-05-01" ELSE "2022-01-01",
                 overview |-> "x"]
    IN IF m < NMovies THEN Put(base, "poster_path", "/p.jpg") ELSE base

\* the request parameters discover_movies builds (lines 29-38): the year is
\* sent only when it is truthy (neither None nor 0)
DiscoverParams(genre_id, min_rating, yr, page) ==
    IF yr # <<>> /\ yr[1] # 0
    THEN [with_genres |-> genre_id, vote_average_gte |-> min_rating,
          sort_by |-> "popularity.desc", page |-> page,
          primary_release_year |-> yr[1]]
    ELSE [with_genres |-> genre_id, vote_average_gte |-> min_rating,
          sort_by |-> "popularity.desc", page |-> page]

\* the catalogue movies a discover request matches, by popularity
CatalogMatches(params) ==
    SelectSeq([m \in 1..NMovies |-> m],
              LAMBDA m :
                  /\ CatalogGenre(m) = params.with_genres
                  /\ CatalogVote(m) >= params.vote_average_gte
                  /\ "primary_release_year" \in DOMAIN params
                        => CatalogYear(m) = params.primary_release_year)

\* page number `page` of a list cut into pages of PageSize
PageOf(all, page) ==
    SubSeq(all, (page - 1) * PageSize + 1,
           IF page * PageSize < Len(all) THEN page * PageSize ELSE Len(all))

\* the movie summaries of a sequence of catalogue movies
Summaries(ms) == [i \in DOMAIN ms |-> CatalogMovie(ms[i])]

\* the provider's answer to a discover request
DiscoverResponse(params) ==
    Summaries(PageOf(CatalogMatches(params), params.page))

\* what discover_movies returns when the request succeeds (line 43)
DiscoverResults(genre_id, min_rating, yr, page) ==
    DiscoverResponse(DiscoverParams(genre_id, min_rating, yr, page))

\* ------------------------------------------------ one run of the script

\* A run is a value c threaded through the statements of the script:
\*   c.ss       st.session_state
\*   c.file     favorites.json
\*   c.log      the calls and file accesses made so far
\*   c.ui       the buttons rendered so far
\*   c.exc      "none" while the run goes on; otherwise what ended it: an
\*              exception, st.stop() or st.rerun()
\*   c.fail     the remote call that will fail: <<endpoint, n>> is the n-th
\*              call of that endpoint from here (n = 0: none)
\*   c.handled  a button handler ran to its end

Raise(c, exc) == [c EXCEPT !.exc = exc]

Logged(c, event) == [c EXCEPT !.log.events = @ \cup {event}]

\* requests.get(...) followed by res.raise_for_status()
requests_get(c, endpoint) ==
    IF c.fail[1] # endpoint \/ c.fail[2] = 0 THEN Logged(c, endpoint)
    ELSE IF c.fail[2] = 1 THEN Raise(Logged(c, endpoint), "RemoteError")
    ELSE [Logged(c, endpoint) EXCEPT !.fail = <<endpoint, c.fail[2] - 1>>]

\* get_genres() (lines 19-24); the list returned is Genres
get_genres(c) == requests_get(c, "get_genres")

\* discover_movies(genre_id, min_rating, year, page) (lines 27-43); the list
\* returned is DiscoverResults of the same arguments
discover_movies(c, genre_id, min_rating, yr, page) ==
    requests_get(
        [c EXCEPT !.log.discover = Append(@, <<genre_id, min_rating, yr, page>>)],
        "discover_movies")

\* get_cast(movie_id) (lines 46-52)
get_cast(c, movie_id) == requests_get(c, "get_cast")

\* mutant: the error is shown and the script goes on
CheckApiKey_nostop(c) ==
    IF ~API_KEY THEN Logged(c, "st.error") ELSE c

\* lines 142-144
CheckApiKey(c) ==
    IF ~API_KEY THEN Raise(Logged(c, "st.error"), "stop") ELSE c

\* lines 153-161: the sidebar, after the genre list has arrived
RenderSidebar(c) == [c EXCEPT !.ui.search = TRUE]

\* if key not in st.session_state: st.session_state[key] = value
SetDefault(ss, key, value) ==
    IF key \notin DOMAIN ss THEN Put(ss, key, value) ELSE ss

\* lines 164-167
InitSession(c) ==
    [c EXCEPT !.ss = SetDefault(SetDefault(@, "page", 1), "movies", <<>>)]

\* mutant: the search appends to the list it finds
SearchStore_append(ss, movies, genre_id, min_rating, yr) ==
    Put(Put(Put(Put(ss, "movies", ss.movies \o movies), "genre_id", genre_id),
            "min_rating", min_rating), "year_value", yr)

\* lines 175-178: the results and the filters go into the session
SearchStore(ss, movies, genre_id, min_rating, yr) ==
    Put(Put(Put(Put(ss, "movies", movies), "genre_id", genre_id),
            "min_rating", min_rating), "year_value", yr)

\* lines 175-178, after the request: c is the run as discover_movies left it
SearchFinish(c, genre_id, min_rating, yr) ==
    IF c.exc # "none" THEN c
    ELSE [c EXCEPT
            !.ss = SearchStore(@, DiscoverResults(genre_id, min_rating, yr, 1),
                               genre_id, min_rating, yr),
            !.handled = TRUE]

\* lines 172-178: c is the run after line 171, parsed what line 173 gives
SearchWith(c, genre_id, min_rating, parsed) ==
    IF parsed.raised # "none" THEN Raise(c, parsed.raised)
    ELSE SearchFinish(discover_movies(c, genre_id, min_rating, parsed.value, 1),
                      genre_id, min_rating, parsed.value)

\* lines 170-178: the search button's handler
SearchHandler(c) ==
    SearchWith([c EXCEPT !.ss = Put(@, "page", 1)],
               genre_map(sidebar.genre), sidebar.min_rating,
               ParseYear(sidebar.year))

\* mutant: "load more" asks with what the sidebar shows now
LoadMoreArgs_sidebar(ss) ==
    <<genre_map(sidebar.genre), sidebar.min_rating,
      IF ParseYear(sidebar.year).raised = "none"
      THEN ParseYear(sidebar.year).value ELSE NoYear>>

\* lines 193-195: the filters "load more" asks with
LoadMoreArgs(ss) == <<ss.genre_id, ss.min_rating, ss.year_value>>

\* mutant: the new page replaces the list
LoadMoreStore_replace(movies, more_movies) == more_movies

\* line 198: st.session_state.movies += more_movies
LoadMoreStore(movies, more_movies) == movies \o more_movies

\* lines 198-199, after the request: c is the run as discover_movies left it
LoadMoreFinish(c, args) ==
    IF c.exc # "none" THEN c
    ELSE [c EXCEPT
            !.ss = Put(@, "movies",
                       LoadMoreStore(@.movies, DiscoverResults(
                           args[1], args[2], args[3], @.page))),
            !.handled = TRUE,
            !.exc = "rerun"]

\* lines 191-199: c is the run after line 190
LoadMoreWith(c, args) ==
    LoadMoreFinish(discover_movies(c, args[1], args[2], args[3], c.ss.page), args)

\* lines 190-199: the "load more" button's handler; reading a filter the
\* session does not hold raises AttributeError
LoadMoreHandler(c) ==
    IF ~({"genre_id", "min_rating", "year_value"} \subseteq DOMAIN c.ss)
    THEN Raise([c EXCEPT !.ss = Put(@, "page", @.page + 1)], "AttributeError")
    ELSE LoadMoreWith([c EXCEPT !.ss = Put(@, "page", @.page + 1)],
                      LoadMoreArgs(c.ss))

\* the file operation of a toggle inside a run: it read the file, and wrote
\* it if `written` is not what was there
FileOp(c, written) ==
    IF written # c.file
    THEN [Logged(Logged(c, "file_read"), "file_write") EXCEPT !.file = written]
    ELSE Logged(c, "file_read")

\* add_favorite(movie) inside a run
AddInRun(c, movie) == FileOp(c, add_favorite(c.file, movie))

\* remove_favorite(movie_id) inside a run: the file is always rewritten
RemoveInRun(c, movie_id) ==
    [Logged(Logged(c, "file_read"), "file_write")
        EXCEPT !.file = remove_favorite(c.file, movie_id)]

\* lines 123-131: the favorite button of the i-th card; c is the run after
\* get_cast
CardButton(c, movie, i, click) ==
    IF c.exc # "none" THEN c
    ELSE IF click # <<"fav", movie.id>>
    THEN [Logged(c, "file_read") EXCEPT !.ui.cards = i]
    ELSE IF is_favorite(c.file, movie.id)
    THEN [RemoveInRun(c, movie.id) EXCEPT
            !.ui.cards = i, !.handled = TRUE, !.exc = "rerun"]
    ELSE [AddInRun(c, movie) EXCEPT
            !.ui.cards = i, !.handled = TRUE, !.exc = "rerun"]

\* show_movie_card(movie) for the i-th movie of the list (lines 98-133)
show_movie_card(c, i, click) ==
    CardButton(get_cast(c, c.ss.movies[i].id), c.ss.movies[i], i, click)

RECURSIVE Cards(_, _, _)
\* lines 184-186: the cards, in list order, until something ends the run
Cards(c, i, click) ==
    IF i > Len(c.ss.movies) \/ c.exc # "none" THEN c
    ELSE Cards(show_movie_card(c, i, click), i + 1, click)

\* lines 188-199: the "load more" button; c is the run after the cards
MoreButton(c, click) ==
    IF c.exc # "none" THEN c
    ELSE IF click = <<"more">> THEN LoadMoreHandler([c EXCEPT !.ui.more = TRUE])
    ELSE [c EXCEPT !.ui.more = TRUE]

\* lines 181-199: the result list and the "load more" button under it
ShowResults(c, click) ==
    IF c.ss.movies = <<>> THEN c ELSE MoreButton(Cards(c, 1, click), click)

\* lines 203-221: the favorites tab
FavoritesTab(c, click) ==
    IF click[1] = "remove" /\ is_favorite(c.file, click[2])
    THEN [RemoveInRun(c, click[2]) EXCEPT
            !.ui.favtab = TRUE, !.handled = TRUE, !.exc = "rerun"]
    ELSE [Logged(c, "file_read") EXCEPT !.ui.favtab = TRUE]

\* line 154, reached only if nothing ended the run before it
GenresStage(c) == IF c.exc = "none" THEN get_genres(c) ELSE c

\* lines 155-161
SidebarStage(c) == IF c.exc = "none" THEN RenderSidebar(c) ELSE c

\* lines 164-167
SessionStage(c) == IF c.exc = "none" THEN InitSession(c) ELSE c

\* lines 170-178
SearchStage(c, click) ==
    IF c.exc = "none" /\ click = <<"search">> THEN SearchHandler(c) ELSE c

\* lines 181-199
ResultsStage(c, click) ==
    IF c.exc = "none" THEN ShowResults(c, click) ELSE c

\* lines 203-221
TabStage(c, click) ==
    IF c.exc = "none" THEN FavoritesTab(c, click) ELSE c

\* lines 140-221: the script, from its first line, with the button `click`
\* reporting True
Script(c, click) ==
    TabStage(
        ResultsStage(
            SearchStage(
                SessionStage(SidebarStage(GenresStage(CheckApiKey(c)))),
                click),
            click),
        click)

\* st.rerun(): the script runs again from the top, no button reporting True
AfterRerun(c) ==
    IF c.exc = "rerun"
    THEN Script([c EXCEPT !.exc = "none", !.ui = NoUi], <<"none">>)
    ELSE c

\* ------------------------------------------------- Spec: one user session

\* the texts the user puts in the year box: nothing, a year, a superscript two
YearChoices == {<<>>, <<"2", "0", "2", "3">>, <<"sup2">>}

\* the positions the rating slider is put at: 7.0 and 8.0
RatingChoices == {70, 80}

\* the three endpoints of the provider
Endpoints == {"get_genres", "discover_movies", "get_cast"}

\* One remote call of an interaction may fail: none, or the n-th call of an
\* endpoint, n in 1..MaxFail.
Failures == {<<"none", 0>>} \cup (Endpoints \X (1..MaxFail))

Init ==
    /\ API_KEY \in BOOLEAN
    /\ file \in {NoFile, save_favorites(<<FavoriteRecord(CatalogMovie(1))>>)}
    /\ session_state = EmptyDict
    /\ sidebar = SidebarDefault
    /\ ui = NoUi
    /\ log = NoLog
    /\ run = NoRun
    /\ searched = NoSearch
    /\ call = NoCall
    /\ ConcIdle /\ YearIdle

\* the run an interaction starts
StartRun(failure) ==
    [ss |-> session_state, file |-> file, log |-> NoLog, ui |-> NoUi,
     exc |-> "none", fail |-> failure, handled |-> FALSE]

\* the state an interaction leaves: c is the run at its end
Leaves(c, click, side) ==
    /\ session_state' = c.ss
    /\ file' = c.file
    /\ log' = c.log
    /\ ui' = c.ui
    /\ run' = [click |-> click[1], exc |-> c.exc, handled |-> c.handled,
               page_before |-> Get(session_state, "page", 0)]
    /\ searched' = IF click = <<"search">> /\ c.handled
                   THEN <<genre_map(sidebar.genre), sidebar.min_rating,
                          ParseYear(sidebar.year).value>>
                   ELSE searched
    /\ sidebar' = side
    /\ UNCHANGED <<API_KEY, call, concVars, yearVars>>

\* One interaction: the script runs with `click` reporting True and `side`
\* in the sidebar; a run ended by st.rerun() is followed by a run from the
\* top in which no button reports True.
Interact(click, side, failure) ==
    Leaves(AfterRerun(Script(StartRun(failure), click)), click, side)

\* the page is opened, or rerun from the menu
Rerun(k) == Interact(<<"none">>, sidebar, k)

\* a sidebar widget is changed, which reruns the script
SetGenre(name, k) ==
    /\ ui.search
    /\ name # sidebar.genre
    /\ Interact(<<"none">>, [sidebar EXCEPT !.genre = name], k)

SetRating(rating, k) ==
    /\ ui.search
    /\ rating # sidebar.min_rating
    /\ Interact(<<"none">>, [sidebar EXCEPT !.min_rating = rating], k)

SetYear(text, k) ==
    /\ ui.search
    /\ text # sidebar.year
    /\ Interact(<<"none">>, [sidebar EXCEPT !.year = text], k)

\* the search button
ClickSearch(k) ==
    /\ ui.search
    /\ Interact(<<"search">>, sidebar, k)

\* the "load more" button
ClickMore(k) ==
    /\ ui.more
    /\ session_state.page < MaxPage
    /\ Len(session_state.movies) < MaxShown
    /\ Interact(<<"more">>, sidebar, k)

\* the favorite button of a rendered card
ClickFav(i, k) ==
    /\ i \in 1..ui.cards
    /\ Interact(<<"fav", session_state.movies[i].id>>, sidebar, k)

\* the remove button of an entry of the favorites tab
ClickRemove(movie_id, k) ==
    /\ ui.favtab
    /\ is_favorite(file, movie_id)
    /\ Interact(<<"remove", movie_id>>, sidebar, k)

Next ==
    \/ \E k \in Failures : Rerun(k)
    \/ \E name \in genre_names, k \in Failures : SetGenre(name, k)
    \/ \E rating \in RatingChoices, k \in Failures : SetRating(rating, k)
    \/ \E text \in YearChoices, k \in Failures : SetYear(text, k)
    \/ \E k \in Failures : ClickSearch(k)
    \/ \E k \in Failures : ClickMore(k)
    \/ \E i \in 1..(MaxShown + PageSize - 1), k \in Failures : ClickFav(i, k)
    \/ \E movie_id \in 1..NMovies, k \in Failures : ClickRemove(movie_id, k)

Spec == Init /\ [][Next]_vars

\* ---------------------------------------------------- the session's claims

\* the state of the section 4.3 state machine a session is in
Phase(ss) ==
    IF "genre_id" \notin DOMAIN ss THEN "Idle"
    ELSE IF ss.movies # <<>> THEN "Results"
    ELSE "Empty"

\* the filters the sidebar asks for, as the search handler reads them
SidebarFilters ==
    <<genre_map(sidebar.genre), sidebar.min_rating, ParseYear(sidebar.year).value>>

C4_WitnessResults ==
    /\ run.click = "search" /\ run.handled
    /\ run.page_before >= 2
    /\ session_state.page = 1
    /\ Phase(session_state) = "Results"

\* C5: "load more" is offered only with a non-empty list; when it completes,
\* the page number has grown by exactly 1 and the list is the old list
\* followed by the results of the recorded filters for the new page number
\* (unchanged when that page is empty), and the session is in Results.
C5_LoadMoreAppends ==
    [][/\ ui'.more => session_state'.movies # <<>>
       /\ (run'.click = "more" /\ run'.handled) =>
             /\ session_state.movies # <<>>
             /\ session_state'.page = session_state.page + 1
             /\ session_state'.movies =
                    session_state.movies \o
                    DiscoverResults(session_state.genre_id, session_state.min_rating,
                                    session_state.year_value, session_state'.page)
             /\ Phase(session_state') = "Results"
      ]_vars

\* "load more" completed and brought the second page under the first
C5_Witness ==
    /\ run.click = "more" /\ run.handled
    /\ session_state.page = 2
    /\ Len(session_state.movies) = 2 * PageSize

\* "load more" completed on a page that came back empty
C5_WitnessEmptyPage ==
    /\ run.click = "more" /\ run.handled
    /\ session_state.page = run.page_before + 1
    /\ DiscoverResults(session_state.genre_id, session_state.min_rating,
                       session_state.year_value, session_state.page) = <<>>

\* C7: without an API key every run shows the error and stops there: no
\* remote call is issued, the favorites file is neither read nor written,
\* no session key is created and no button is rendered.
C7_NoKeyHalts ==
    ~API_KEY =>
        /\ run.click # "start" => ("st.error" \in log.events /\ run.exc = "stop")
        /\ log.events \subseteq {"st.error"}
        /\ log.discover = <<>>
        /\ session_state = EmptyDict
        /\ ui = NoUi

\* the script has run without an API key, with a favorites file on disk
C7_Witness ==
    /\ ~API_KEY
    /\ run.click = "none"
    /\ "st.error" \in log.events
    /\ file.exists

\* C9: every "load more" asks with the genre id, minimum rating and year of
\* the latest search that completed, whatever the sidebar shows; and when
\* the list is non-empty the session holds those three filters.
C9_LoadMoreUsesRecordedFilters ==
    [][/\ ("movies" \in DOMAIN session_state' /\ session_state'.movies # <<>>) =>
             /\ {"genre_id", "min_rating", "year_value"} \subseteq DOMAIN session_state'
             /\ searched' = <<session_state'.genre_id, session_state'.min_rating,
                              session_state'.year_value>>
       /\ run'.exc # "AttributeError"
       /\ (run'.click = "more" /\ log'.discover # <<>>) =>
             log'.discover = <<searched \o <<session_state.page + 1>>>>
      ]_vars

\* "load more" has asked the provider while the sidebar showed another
\* genre, rating and year than the search recorded
C9_Witness ==
    /\ run.click = "more" /\ run.handled
    /\ searched[1] # genre_map(sidebar.genre)
    /\ searched[2] # sidebar.min_rating
    /\ searched[3] # ParseYear(sidebar.year).value

RECURSIVE Pages(_, _, _, _)
\* the results of pages 1..page of a discover query, one after the other
Pages(genre_id, min_rating, yr, page) ==
    IF page = 0 THEN <<>>
    ELSE Pages(genre_id, min_rating, yr, page - 1)
         \o DiscoverResults(genre_id, min_rating, yr, page)

\* a search or "load more" whose discover_movies call failed
DiscoverFailed ==
    /\ run.click \in {"search", "more"}
    /\ log.discover # <<>>
    /\ ~run.handled

\* C10: a discover_movies call that fails during a search or a "load more"
\* leaves the session exactly as it was (page, list, filters); hence after
\* every interaction the list is made of the pages 1..page of the recorded
\* filters, so that the next "load more" asks for the page after the last
\* one appended.
C10_FailureLeavesSession ==
    [][/\ DiscoverFailed' => session_state' = session_state
       /\ "genre_id" \in DOMAIN session_state' =>
             session_state'.movies =
                 Pages(session_state'.genre_id, session_state'.min_rating,
                       session_state'.year_value, session_state'.page)
      ]_vars

\* "load more" whose discover_movies call failed: the page number has moved
\* on, the list has not
C10_Witness ==
    /\ DiscoverFailed
    /\ run.click = "more"
    /\ run.exc = "RemoteError"
    /\ session_state.page = run.page_before + 1
    /\ session_state.movies # Pages(session_state.genre_id, session_state.min_rating,
                                    session_state.year_value, session_state.page)

=============================================================================
